---- MODULE Spec2Model ----
(***************************************************************************)
(* Model of the create-af-app scaffolding script.                          *)
(*                                                                         *)
(* Two revisions of the script are in the repository:                      *)
(*   "extended" : src/createAFLabApp.js  (with postInstall)                *)
(*   "basic"    : src/unnamed/part_000   (no postInstall)                  *)
(*                                                                         *)
(* A JavaScript string is a sequence of tokens (package names, verbs and   *)
(* the blank " "), so that concatenation, join(' ') and template literals  *)
(* are computed as the code computes them.  A filesystem is the set of the *)
(* paths that exist; a path is the sequence of its components.             *)
(***************************************************************************)
EXTENDS Integers, Sequences, FiniteSets, TLC

VARIABLES
    variant,              \* which revision of the script runs
    nodeMajor,            \* process.versions.node, major part
    argv,                 \* process.argv
    fs,                   \* the filesystem: set of existing paths
    fs0,                  \* the filesystem when the process started
    cwd,                  \* process.cwd()
    projectName,          \* let projectName
    projectPath,          \* let projectPath
    isCurrentDir,         \* let isCurrentDir
    selectedDependencies, \* answers of the dependency prompts
    pc,                   \* position of init()
    trace,                \* ordered record of every external effect
    exitCode              \* process exit status, -1 while running

vars == <<variant, nodeMajor, argv, fs, fs0, cwd, projectName, projectPath,
          isCurrentDir, selectedDependencies, pc, trace, exitCode>>

----------------------------------------------------------------------------
(* Bounds and input domains *)

MaxUserFiles == 1

MinNodeMajor == 14

UserFileNames == <<"notes.txt", "todo.txt", "data.txt", "more.txt">>

NodeMajors == {12, 14, 16}

Variants == {"extended", "basic"}

\* the positional arguments tried: none, current directory, a valid name,
\* a valid scoped name, a name npm rejects
ArgLists == {<<>>, <<".">>, <<"my-app">>, <<"@af/my-app">>, <<"My App">>}

HomeDir == <<"home">>

\* JavaScript undefined, as a scalar and as a string/array value
Undefined == "<undefined>"

UNDEF == <<Undefined>>

GITHUB_REPO == "https://github.com/tzeweiwee/airfoil-labs-nextjs-template.git"

PackageManagers == {"pnpm", "npm", "yarn"}

CssChoices == {"none", "chakraui"}

BackendChoices == {<<>>, <<"prisma">>, <<"supabase">>, <<"prisma", "supabase">>}

RemoteNames == {"af-remote"}

----------------------------------------------------------------------------
(* Filesystem collaborator *)

IsPrefix(p, q) == Len(p) <= Len(q) /\ SubSeq(q, 1, Len(p)) = p

existsSync(f, p) == p \in f

\* fs.rmSync(p, { recursive: true }) on an existing path
rmSyncRecursive(f, p) == {q \in f : ~IsPrefix(p, q)}

IsEmptyDir(f, p) == p \in f /\ \A q \in f : IsPrefix(p, q) => q = p

Ancestors(p) == {SubSeq(p, 1, k) : k \in 1..Len(p)}

\* what a completed `git clone --depth 1` leaves at p
ClonedTree(p) == Ancestors(p) \cup {p \o <<".git">>, p \o <<"package.json">>}

\* what an interrupted clone leaves at p
PartialTree(p) == Ancestors(p) \cup {p \o <<".git">>}

\* path.join(currentPath, name): "." normalises away, "/" separates segments
Segments(name) ==
    CASE name = "." -> <<>>
      [] name = "@af/my-app" -> <<"@af", "my-app">>
      [] OTHER -> <<name>>

pathJoin(currentPath, name) == currentPath \o Segments(name)

\* validate(projectName).validForNewPackages
validForNewPackages(name) == name \in {"my-app", "@af/my-app"}

----------------------------------------------------------------------------
(* Strings *)

\* `${v}` of a scalar
Str(v) == IF v = Undefined THEN "undefined" ELSE v

\* ''.concat(v) / `${v}` of a string value
ToStr(s) == IF s = UNDEF THEN <<"undefined">> ELSE s

Truthy(s) == s # UNDEF /\ s # <<>>

Event(kind, what, ok) == [kind |-> kind, what |-> what, ok |-> ok]

----------------------------------------------------------------------------
(* Dependency table and command construction *)

\* const packageDependencies; a key the table lacks reads as undefined
packageDependencies(v, key) ==
    CASE key = "chakraui" ->
           <<"@chakra-ui/react", " ", "@emotion/react@^11", " ",
             "@emotion/styled@^11", " ", "framer-motion@^6">>
      [] key = "tailwindcss" -> <<"tailwindcss", " ", "postcss", " ", "autoprefixer">>
      [] key = "prisma" -> <<"prisma">>
      [] key = "supabase" ->
           IF v = "extended" THEN <<>> ELSE <<"@supabase/supabase-js">>
      [] OTHER -> UNDEF

getCssDependencies(v, cssStyleFramework) ==
    LET d == packageDependencies(v, cssStyleFramework)
    IN  IF Truthy(d) THEN d ELSE <<>>

RECURSIVE reduceConcat(_, _, _)
reduceConcat(v, services, deps) ==
    IF services = <<>> THEN deps
    ELSE reduceConcat(v, Tail(services),
                      deps \o ToStr(packageDependencies(v, Head(services))))

getBackendServicesDependencies(v, backendServices) ==
    IF backendServices = UNDEF \/ Len(backendServices) = 0 THEN <<>>
    ELSE reduceConcat(v, backendServices, <<>>)

\* [cssStyleDependencies, backendDependencies].join(' ')
allDependencies(v, cssStyling, backendServices) ==
    getCssDependencies(v, cssStyling) \o <<" ">>
        \o getBackendServicesDependencies(v, backendServices)

\* switch with fall-through from the yarn/pnpm case into npm/default
getInstallCommand(packageManager, dependencies) ==
    IF /\ packageManager \in {"yarn", "pnpm"}
       /\ ~Truthy(dependencies)
       /\ dependencies # <<" ">>
    THEN <<Str(packageManager), " ", "add", " ">> \o ToStr(dependencies)
    ELSE <<Str(packageManager), " ", "install", " ">> \o ToStr(dependencies)

cloneCommand(p) ==
    <<"git", " ", "clone", " ", "--depth", " ", "1", " ", GITHUB_REPO, " ">> \o p

includes(arr, x) == \E i \in 1..Len(arr) : arr[i] = x

runScript(packageManager, script) ==
    Event("exec", <<Str(packageManager), " ", "run", " ", script>>, TRUE)

\* variation: the second test repeats the first one's service
generatorStepsSameTest(packageManager, backendServices) ==
    (IF includes(backendServices, "prisma")
        THEN <<runScript(packageManager, "init:prisma")>> ELSE <<>>)
    \o
    (IF includes(backendServices, "prisma")
        THEN <<runScript(packageManager, "init:supabase")>> ELSE <<>>)

\* the two generator steps of postInstall, in source order
generatorSteps(packageManager, backendServices) ==
    (IF includes(backendServices, "prisma")
        THEN <<runScript(packageManager, "init:prisma")>> ELSE <<>>)
    \o
    (IF includes(backendServices, "supabase")
        THEN <<runScript(packageManager, "init:supabase")>> ELSE <<>>)

PromptEvent(name, answer, answered) ==
    Event("prompt", <<name>> \o (IF answered THEN answer ELSE <<>>), answered)

loginCommand == <<"npx", " ", "supabase", " ", "login">>

listCommand == <<"npx", " ", "supabase", " ", "projects", " ", "list">>

createCommand(name) ==
    <<"npx", " ", "supabase", " ", "projects", " ", "create", " ", Str(name), " ", "-i">>

\* the hosted-service steps of postInstall, in source order; name is the
\* answer of supabaseProjectPrompts, Undefined when the prompt was cancelled
supabaseSteps(isCreateSupabaseProject, name) ==
    IF isCreateSupabaseProject = "true"
    THEN << Event("exec", loginCommand, TRUE),
            Event("exec", listCommand, TRUE),
            PromptEvent("projectName", <<name>>, name # Undefined),
            Event("exec", createCommand(name), TRUE) >>
    ELSE <<>>

\* the effects performed when step f of the plan throws (f = 0: none does)
RunPlan(full, f) ==
    IF f = 0 THEN full
    ELSE SubSeq(full, 1, f - 1) \o <<[full[f] EXCEPT !.ok = FALSE]>>

ExecSteps(full) == {i \in 1..Len(full) : full[i].kind = "exec"}

\* prompts(dependenciesPrompts) with the first c questions answered: the
\* questions shown, the one after the last answer being the cancelled one
dependencyPromptEvents(c, pm, css, be) ==
    LET all == << PromptEvent("packageManager", <<pm>>, c >= 1),
                  PromptEvent("cssStyling", <<css>>, c >= 2),
                  PromptEvent("backendServices", be, c >= 3) >>
    IN  SubSeq(all, 1, IF c < 3 THEN c + 1 ELSE 3)

\* variation: the rollback removes the metadata directory, as cleanUp does
deleteDirectoryGitOnly(f, p) == rmSyncRecursive(f, p \o <<".git">>)

\* fs.rmSync(projectPath, { recursive: true })
deleteDirectory(f, p) == rmSyncRecursive(f, p)

\* exit status after init() rejected with nobody handling the rejection
UnhandledRejectionExit(major) == IF major >= 15 THEN 1 ELSE 0

----------------------------------------------------------------------------
(* Initial states: the process has started and init() has not run yet *)

UserFiles(n) == {HomeDir \o <<UserFileNames[i]>> : i \in 1..n}

\* a directory my-app that some earlier work left in the working directory
OldProject == {HomeDir \o <<"my-app">>, HomeDir \o <<"my-app", "old.txt">>}

Init ==
    /\ variant \in Variants
    /\ nodeMajor \in NodeMajors
    /\ \E args \in ArgLists : argv = <<"node", "create-af-app">> \o args
    /\ \E n \in 0..MaxUserFiles, old \in BOOLEAN :
          fs = {HomeDir} \cup UserFiles(n) \cup (IF old THEN OldProject ELSE {})
    /\ fs0 = fs
    /\ cwd = HomeDir
    /\ projectName = Undefined
    /\ projectPath = UNDEF
    /\ isCurrentDir = FALSE
    /\ selectedDependencies =
          [packageManager |-> Undefined, cssStyling |-> Undefined,
           backendServices |-> UNDEF]
    /\ pc = "startUp"
    /\ trace = <<>>
    /\ exitCode = -1

Inputs == <<variant, nodeMajor, argv, fs0>>

\* process.exit(1) after the diagnostic
ProcessExit1(message) ==
    /\ trace' = Append(trace, Event("error", <<message>>, TRUE))
    /\ pc' = "exited"
    /\ exitCode' = 1

----------------------------------------------------------------------------
(* The steps of init() *)

startUp ==
    /\ pc = "startUp"
    /\ trace' = Append(trace, Event("print", <<"Create Airfoil Lab App">>, TRUE))
    /\ pc' = "validateNodeVersion"
    /\ UNCHANGED <<Inputs, fs, cwd, projectName, projectPath, isCurrentDir,
                   selectedDependencies, exitCode>>

validateNodeVersion ==
    /\ pc = "validateNodeVersion"
    /\ IF nodeMajor < MinNodeMajor
          THEN ProcessExit1("UnsupportedNode")
          ELSE /\ pc' = "validateAppName"
               /\ UNCHANGED <<trace, exitCode>>
    /\ UNCHANGED <<Inputs, fs, cwd, projectName, projectPath, isCurrentDir,
                   selectedDependencies>>

validateAppName ==
    /\ pc = "validateAppName"
    /\ IF Len(argv) < 3
          THEN /\ ProcessExit1("MissingArgument")
               /\ UNCHANGED <<projectName, isCurrentDir>>
          ELSE /\ projectName' = argv[3]
               /\ IF argv[3] = "."
                     THEN /\ isCurrentDir' = TRUE
                          /\ pc' = "setProjectPath"
                          /\ UNCHANGED <<trace, exitCode>>
                     ELSE /\ UNCHANGED isCurrentDir
                          /\ IF ~validForNewPackages(argv[3])
                                THEN ProcessExit1("InvalidName")
                                ELSE /\ pc' = "setProjectPath"
                                     /\ UNCHANGED <<trace, exitCode>>
    /\ UNCHANGED <<Inputs, fs, cwd, projectPath, selectedDependencies>>

setProjectPath ==
    /\ pc = "setProjectPath"
    /\ projectPath' = pathJoin(cwd, projectName)
    /\ pc' = "validateProjectPath"
    /\ UNCHANGED <<Inputs, fs, cwd, projectName, isCurrentDir,
                   selectedDependencies, trace, exitCode>>

\* variation: the collision check is missing
validateProjectPathNoCheck ==
    /\ pc = "validateProjectPath"
    /\ pc' = "cloneRepo"
    /\ UNCHANGED <<Inputs, fs, cwd, projectName, projectPath, isCurrentDir,
                   selectedDependencies, trace, exitCode>>

\* variation: the collision check ignores isCurrentDir
validateProjectPathNoSentinel ==
    /\ pc = "validateProjectPath"
    /\ IF existsSync(fs, projectPath)
          THEN ProcessExit1("PathExists")
          ELSE /\ pc' = "cloneRepo"
               /\ UNCHANGED <<trace, exitCode>>
    /\ UNCHANGED <<Inputs, fs, cwd, projectName, projectPath, isCurrentDir,
                   selectedDependencies>>

validateProjectPath ==
    /\ pc = "validateProjectPath"
    /\ IF ~isCurrentDir /\ existsSync(fs, projectPath)
          THEN ProcessExit1("PathExists")
          ELSE /\ pc' = "cloneRepo"
               /\ UNCHANGED <<trace, exitCode>>
    /\ UNCHANGED <<Inputs, fs, cwd, projectName, projectPath, isCurrentDir,
                   selectedDependencies>>

\* git refuses a destination that exists and is not an empty directory
CanClone(f, p) == ~existsSync(f, p) \/ IsEmptyDir(f, p)

\* execSync(`git clone ...`): completes, or throws leaving nothing, or
\* throws after the client was stopped half-way
cloneRepo ==
    /\ pc = "cloneRepo"
    /\ \/ /\ CanClone(fs, projectPath)
          /\ fs' = fs \cup ClonedTree(projectPath)
          /\ trace' = Append(trace, Event("exec", cloneCommand(projectPath), TRUE))
          /\ pc' = IF variant = "extended" THEN "chdir" ELSE "installDependencies"
       \/ /\ fs' = fs
          /\ trace' = Append(trace, Event("exec", cloneCommand(projectPath), FALSE))
          /\ pc' = "catch"
       \/ /\ CanClone(fs, projectPath)
          /\ fs' = fs \cup PartialTree(projectPath)
          /\ trace' = Append(trace, Event("exec", cloneCommand(projectPath), FALSE))
          /\ pc' = "catch"
    /\ UNCHANGED <<Inputs, cwd, projectName, projectPath, isCurrentDir,
                   selectedDependencies, exitCode>>

\* process.chdir(projectPath) in init() of the extended revision
chdir ==
    /\ pc = "chdir"
    /\ IF existsSync(fs, projectPath)
          THEN /\ cwd' = projectPath
               /\ trace' = Append(trace, Event("chdir", projectPath, TRUE))
               /\ pc' = "installDependencies"
          ELSE /\ cwd' = cwd
               /\ trace' = Append(trace, Event("chdir", projectPath, FALSE))
               /\ pc' = "catch"
    /\ UNCHANGED <<Inputs, fs, projectName, projectPath, isCurrentDir,
                   selectedDependencies, exitCode>>

\* c of the three dependency questions are answered (3: all of them); the
\* command of a cancelled package manager question starts with "undefined",
\* which is no program, so that execSync throws; an install that throws may
\* have written node_modules already
installDependencies ==
    /\ pc = "installDependencies"
    /\ \E c \in 0..3, pm \in PackageManagers, css \in CssChoices,
          be \in BackendChoices, done \in BOOLEAN, partial \in BOOLEAN :
          LET packageManager == IF c >= 1 THEN pm ELSE Undefined
              cssStyling == IF c >= 2 THEN css ELSE Undefined
              backendServices == IF c >= 3 THEN be ELSE UNDEF
              command == getInstallCommand(packageManager,
                            allDependencies(variant, cssStyling, backendServices))
              ok == done /\ packageManager # Undefined
              moved == IF variant = "basic"
                          THEN <<Event("chdir", projectPath, TRUE)>> ELSE <<>>
          IN  /\ cwd' = IF variant = "basic" THEN projectPath ELSE cwd
              /\ fs' = IF ok \/ partial
                          THEN fs \cup {cwd' \o <<"node_modules">>} ELSE fs
              /\ selectedDependencies' =
                    [packageManager |-> packageManager, cssStyling |-> cssStyling,
                     backendServices |-> backendServices]
              /\ trace' = trace \o moved \o dependencyPromptEvents(c, pm, css, be)
                             \o <<Event("exec", command, ok)>>
              /\ pc' = IF ~ok THEN "catch"
                       ELSE IF variant = "extended" THEN "postInstall"
                       ELSE "cleanUp"
    /\ UNCHANGED <<Inputs, projectName, projectPath, isCurrentDir, exitCode>>

\* the boilerplate the completed generator scripts wrote under dir
Generated(dir, events) ==
    {dir \o <<events[i].what[5]>> :
        i \in {j \in DOMAIN events :
                  /\ events[j].kind = "exec" /\ events[j].ok
                  /\ events[j].what[3] = "run"}}

\* confirm is the answer of postInstallPrompts, Undefined when cancelled;
\* backendServices.includes throws a TypeError on undefined
postInstall ==
    /\ pc = "postInstall"
    /\ \E confirm \in {"true", "false", Undefined},
          name \in RemoteNames \cup {Undefined} :
          LET backendServices == selectedDependencies.backendServices
              packageManager == selectedDependencies.packageManager
              asked == PromptEvent("isCreateSupabaseProject", <<confirm>>,
                                   confirm # Undefined)
          IN  IF backendServices = UNDEF
                 THEN /\ trace' = trace \o
                           <<asked, Event("throw", <<"TypeError">>, FALSE)>>
                      /\ fs' = fs
                      /\ pc' = "catch"
                 ELSE LET full == <<asked>>
                                  \o generatorSteps(packageManager, backendServices)
                                  \o supabaseSteps(confirm, name)
                      IN  \E f \in {0} \cup ExecSteps(full) :
                             /\ trace' = trace \o RunPlan(full, f)
                             /\ fs' = fs \cup Generated(cwd, RunPlan(full, f))
                             /\ pc' = IF f = 0 THEN "cleanUp" ELSE "catch"
    /\ UNCHANGED <<Inputs, cwd, projectName, projectPath, isCurrentDir,
                   selectedDependencies, exitCode>>

\* variation: the metadata directory is left in place
cleanUpKeepsGit ==
    /\ pc = "cleanUp"
    /\ pc' = "success"
    /\ UNCHANGED <<Inputs, fs, cwd, projectName, projectPath, isCurrentDir,
                   selectedDependencies, trace, exitCode>>

\* fs.rmSync('./.git', { recursive: true }), relative to the working directory
cleanUp ==
    /\ pc = "cleanUp"
    /\ LET git == cwd \o <<".git">>
       IN  IF existsSync(fs, git)
              THEN /\ fs' = rmSyncRecursive(fs, git)
                   /\ trace' = Append(trace, Event("rmSync", git, TRUE))
                   /\ pc' = "success"
              ELSE /\ fs' = fs
                   /\ trace' = Append(trace, Event("rmSync", git, FALSE))
                   /\ pc' = "catch"
    /\ UNCHANGED <<Inputs, cwd, projectName, projectPath, isCurrentDir,
                   selectedDependencies, exitCode>>

\* the banner is the last statement of init(): the process ends with status 0
success ==
    /\ pc = "success"
    /\ trace' = Append(trace, Event("print", <<"SUCCESS!">>, TRUE))
    /\ pc' = "exited"
    /\ exitCode' = 0
    /\ UNCHANGED <<Inputs, fs, cwd, projectName, projectPath, isCurrentDir,
                   selectedDependencies>>

\* catch (err) { console.error(err); deleteDirectory(); }  rmSync without
\* force throws on a missing path, and the rejection of init() is unhandled
catchHandler ==
    /\ pc = "catch"
    /\ IF existsSync(fs, projectPath)
          THEN /\ fs' = deleteDirectory(fs, projectPath)
               /\ trace' = trace \o <<Event("error", <<"ScaffoldFailure">>, TRUE),
                                      Event("rmSync", projectPath, TRUE)>>
               /\ exitCode' = 0
          ELSE /\ fs' = fs
               /\ trace' = trace \o <<Event("error", <<"ScaffoldFailure">>, TRUE),
                                      Event("rmSync", projectPath, FALSE)>>
               /\ exitCode' = UnhandledRejectionExit(nodeMajor)
    /\ pc' = "exited"
    /\ UNCHANGED <<Inputs, cwd, projectName, projectPath, isCurrentDir,
                   selectedDependencies>>

Next ==
    \/ startUp
    \/ validateNodeVersion
    \/ validateAppName
    \/ setProjectPath
    \/ validateProjectPath
    \/ cloneRepo
    \/ chdir
    \/ installDependencies
    \/ postInstall
    \/ cleanUp
    \/ success
    \/ catchHandler

Spec == Init /\ [][Next]_vars

----------------------------------------------------------------------------
(* Observations on a run *)

PreflightPcs == {"startUp", "validateNodeVersion", "validateAppName",
                 "setProjectPath", "validateProjectPath"}

Idx(kind) == {i \in DOMAIN trace : trace[i].kind = kind}

ExecIdx(word) == {i \in Idx("exec") : trace[i].what[1] = word}

CloneIdx == ExecIdx("git")

InstallIdx == {i \in Idx("exec") : trace[i].what[3] \in {"add", "install"}}

GeneratorIdx == {i \in Idx("exec") : trace[i].what[3] = "run"}

HostedIdx == ExecIdx("npx")

CreateIdx ==
    {i \in HostedIdx : Len(trace[i].what) >= 7 /\ trace[i].what[7] = "create"}

CancelledIdx == {i \in Idx("prompt") : ~trace[i].ok}

PreflightFailed ==
    \E i \in Idx("error") : trace[i].what # <<"ScaffoldFailure">>

Caught == \E i \in Idx("error") : trace[i].what = <<"ScaffoldFailure">>

\* the rollback deletion was run (whether or not it found the path)
RollbackRan == \E i \in Idx("rmSync") : trace[i].what = projectPath

BannerShown == \E i \in Idx("print") : trace[i].what = <<"SUCCESS!">>

NothingUnder(f, p) == \A q \in f : ~IsPrefix(p, q)

\* the inputs that one of the four pre-flight checks rejects
FailsPreflight ==
    \/ nodeMajor < MinNodeMajor
    \/ Len(argv) < 3
    \/ /\ argv[3] # "."
       /\ \/ ~validForNewPackages(argv[3])
          \/ existsSync(fs0, pathJoin(HomeDir, argv[3]))

----------------------------------------------------------------------------
(* Claims *)

\* C1: in named-directory mode, once a step from clone through post-install
\* has thrown and the process has exited, the resolved project path does not
\* exist and nothing exists beneath it.
C1_NoPartialScaffold ==
    (pc = "exited" /\ ~isCurrentDir /\ Caught)
        => /\ ~existsSync(fs, projectPath)
           /\ NothingUnder(fs, projectPath)

\* a named-directory run whose clone completed, whose later step threw and
\* whose rollback removed the directory
C1_Witness ==
    /\ pc = "exited" /\ ~isCurrentDir /\ Caught
    /\ \E i \in CloneIdx : trace[i].ok
    /\ \E i \in Idx("rmSync") : trace[i].what = projectPath /\ trace[i].ok
    /\ ~existsSync(fs, projectPath)

\* C2: the exit status is 1 exactly when a validation failed or the top-level
\* handler caught an exception, and 0 only when the whole workflow succeeded.
C2_ExitStatus ==
    pc = "exited"
        => /\ (PreflightFailed \/ Caught) => exitCode = 1
           /\ exitCode = 0 => BannerShown

\* C3: a run whose input fails a pre-flight check never gets past the
\* pre-flight steps, performs no clone, prompt, deletion or directory change,
\* leaves the filesystem as it found it, and exits with status 1.
C3_PreflightNoEffects ==
    FailsPreflight
        => /\ pc \in PreflightPcs \cup {"exited"}
           /\ fs = fs0
           /\ cwd = HomeDir
           /\ Idx("exec") \cup Idx("chdir") \cup Idx("rmSync") \cup Idx("prompt") = {}
           /\ pc = "exited" => exitCode = 1 /\ PreflightFailed

\* a run rejected because the resolved path exists, the old directory intact
C3_Witness ==
    /\ pc = "exited" /\ exitCode = 1
    /\ \E i \in Idx("error") : trace[i].what = <<"PathExists">>
    /\ OldProject \subseteq fs
    /\ projectPath = HomeDir \o <<"my-app">>

\* C4: after a run that ended in the rollback, the filesystem is what it was
\* before the run.
C4_RollbackRestores ==
    (pc = "exited" /\ Caught) => fs = fs0

\* the dependency string names at least one package
NamesPackage(dependencies) ==
    \E i \in 1..Len(dependencies) : dependencies[i] # " "

\* C5: the install command run is "<pm> add <dependencies>" when the computed
\* dependency string names a package, and "<pm> install" with no argument
\* otherwise, whichever package manager was chosen.
C5_InstallVerb ==
    \A i \in InstallIdx :
        LET pm == selectedDependencies.packageManager
            deps == allDependencies(variant, selectedDependencies.cssStyling,
                                    selectedDependencies.backendServices)
        IN  pm \in PackageManagers
                => IF NamesPackage(deps)
                      THEN trace[i].what = <<pm, " ", "add", " ">> \o deps
                      ELSE /\ trace[i].what[3] = "install"
                           /\ ~NamesPackage(SubSeq(trace[i].what, 4, Len(trace[i].what)))

ScriptOf(service) == IF service = "prisma" THEN "init:prisma" ELSE "init:supabase"

Services == {"prisma", "supabase"}

\* every generator step of postInstall has been passed
GeneratorsDone ==
    variant = "extended" /\ (pc \in {"cleanUp", "success"} \/ BannerShown)

\* C6: every generator command run is "<pm> run init:<service>" of a selected
\* service with the chosen package manager, is run at most once and only after
\* an install command that completed; once post-install has completed, each
\* selected service's generator has run exactly once, and none has run when no
\* service was selected.
C6_Generators ==
    LET pm == selectedDependencies.packageManager
        be == selectedDependencies.backendServices
        Runs(service) ==
            {i \in GeneratorIdx :
                trace[i].what = <<pm, " ", "run", " ", ScriptOf(service)>>}
    IN  /\ \A i \in GeneratorIdx :
              /\ variant = "extended"
              /\ pm \in PackageManagers
              /\ \E service \in Services :
                    i \in Runs(service) /\ includes(be, service)
              /\ \E j \in InstallIdx : j < i /\ trace[j].ok
              /\ \A j \in 1..(i - 1) : trace[j].kind = "exec" => trace[j].ok
        /\ \A service \in Services : Cardinality(Runs(service)) <= 1
        /\ GeneratorsDone =>
              \A service \in Services :
                  Cardinality({i \in Runs(service) : trace[i].ok}) =
                      IF includes(be, service) THEN 1 ELSE 0

\* a finished run with both services selected and both generators run
C6_Witness ==
    /\ BannerShown
    /\ selectedDependencies.backendServices = <<"prisma", "supabase">>
    /\ Cardinality(GeneratorIdx) = 2

\* C7: with the argument "." the run is in current-directory mode and no
\* name or collision check stops it: it reaches the clone although the
\* resolved path, the working directory, exists; with any other argument the
\* clone is reached only with a name valid for new packages and a resolved
\* path that did not exist.
C7_CurrentDirSentinel ==
    (Len(argv) >= 3 /\ nodeMajor >= MinNodeMajor)
        => IF argv[3] = "."
              THEN /\ ~PreflightFailed
                   /\ pc \notin {"startUp", "validateNodeVersion", "validateAppName"}
                         => isCurrentDir
                   /\ pc \notin PreflightPcs
                         => /\ projectPath = HomeDir
                            /\ existsSync(fs0, projectPath)
                            /\ pc = "cloneRepo" \/ CloneIdx # {}
              ELSE /\ ~isCurrentDir
                   /\ (pc = "cloneRepo" \/ CloneIdx # {})
                         => /\ validForNewPackages(argv[3])
                            /\ ~existsSync(fs0, pathJoin(HomeDir, argv[3]))

\* the clone was run for "." in a working directory that holds a file
C7_Witness ==
    /\ Len(argv) >= 3 /\ argv[3] = "."
    /\ CloneIdx # {}
    /\ isCurrentDir
    /\ HomeDir \o <<"notes.txt">> \in fs0

\* C8: the success finalization is reached only after clone, install and
\* every post-install step completed: then no step has failed, the project
\* directory exists without its .git directory once cleanUp has run, and the
\* rollback deletion has not run and never runs in a run showing the banner.
C8_SuccessOnlyAfterAll ==
    /\ (pc = "success" \/ BannerShown)
          => /\ \A i \in DOMAIN trace \ Idx("prompt") : trace[i].ok
             /\ \E i \in CloneIdx : trace[i].ok
             /\ \E i \in InstallIdx : trace[i].ok
             /\ variant = "extended" =>
                   \E i \in Idx("prompt") :
                       trace[i].what[1] = "isCreateSupabaseProject"
             /\ existsSync(fs, projectPath)
             /\ ~existsSync(fs, projectPath \o <<".git">>)
             /\ \E i \in Idx("rmSync") : trace[i].what = projectPath \o <<".git">>
             /\ ~RollbackRan /\ ~Caught
    /\ ~(BannerShown /\ RollbackRan)
    /\ BannerShown => trace[Len(trace)].what = <<"SUCCESS!">>

\* a finished successful run
C8_Witness ==
    /\ pc = "exited" /\ BannerShown /\ exitCode = 0
    /\ existsSync(fs, projectPath \o <<"package.json">>)

\* C9: a run in which a prompt was cancelled ends in the rollback with the
\* resolved path deleted, and shows no success banner and runs no remote
\* project creation command.
C9_CancelIsFailure ==
    CancelledIdx # {}
        => /\ ~BannerShown
           /\ CreateIdx = {}
           /\ pc = "exited" => RollbackRan /\ ~existsSync(fs, projectPath)

\* C10: hosted-service commands are run only after the user confirmed, in the
\* order login, list, name prompt, create, each after the previous one
\* completed, and the create command carries the name the user entered.
C10_HostedSequence ==
    LET hosted == {i \in DOMAIN trace :
                      \/ i \in HostedIdx
                      \/ i \in Idx("prompt") /\ trace[i].what[1] = "projectName"}
        first == CHOOSE i \in hosted : \A j \in hosted : i <= j
        Expected(k, name) ==
            CASE k = 0 -> loginCommand
              [] k = 1 -> listCommand
              [] k = 2 -> <<"projectName", name>>
              [] OTHER -> createCommand(name)
    IN  hosted # {}
          => /\ \E i \in Idx("prompt") :
                   /\ i < first
                   /\ trace[i].what = <<"isCreateSupabaseProject", "true">>
             /\ hosted = first..(first + Cardinality(hosted) - 1)
             /\ Cardinality(hosted) <= 4
             /\ \E name \in RemoteNames :
                   \A i \in hosted :
                       /\ trace[i].what = Expected(i - first, name)
                       /\ i < first + Cardinality(hosted) - 1 => trace[i].ok

\* the package names a string holds
PackageNames(str) == {str[i] : i \in {j \in 1..Len(str) : str[j] # " "}}

\* the package names the static table lists for a choice; none for a choice
\* the table lacks
TableNames(v, choice) ==
    LET d == packageDependencies(v, choice)
    IN  IF d = UNDEF THEN {} ELSE PackageNames(d)

\* C11: the dependency specifier of the install command holds exactly the
\* package names the static table lists for the chosen CSS framework and the
\* chosen backend services, a choice of 'none' or one the table lacks
\* contributing nothing, and each package name is set off from the next by a
\* blank.
C11_DependencySpecifier ==
    \A i \in InstallIdx :
        LET deps == SubSeq(trace[i].what, 5, Len(trace[i].what))
            css == selectedDependencies.cssStyling
            be == IF selectedDependencies.backendServices = UNDEF
                     THEN <<>> ELSE selectedDependencies.backendServices
        IN  /\ PackageNames(deps) =
                  TableNames(variant, css)
                      \cup UNION {TableNames(variant, be[k]) : k \in 1..Len(be)}
            /\ \A j \in 1..(Len(deps) - 1) : deps[j] = " " \/ deps[j + 1] = " "

====
